---- MODULE Spec2Model ----
(***************************************************************************)
(* ginerr: a registry that maps Go errors to (status, payload) responses.  *)
(* The repository holds five generations of the same package:              *)
(*   "v1e"  src/unnamed/part_001      earliest v1 (typed key built with %R) *)
(*   "v1"   src/errors.go             v1                                    *)
(*   "v2a"  src/v2/errors.go 1-194    v2, handlers with or without ctx      *)
(*   "v2b"  src/v2/errors.go 195-330  v2, DefaultHandler variant            *)
(*   "v3"   src/unnamed/part_000      v3, handlers keyed by error instance  *)
(* One behaviour of the model is one process running one generation.       *)
(***************************************************************************)
EXTENDS Integers, Sequences, FiniteSets, TLC

VARIABLES version, registries, ncalls, last

vars == <<version, registries, ncalls, last>>

\* Bounds of the model.
MaxCalls == 2   \* mutating calls (Register*, SetDefaultResponse) in one behaviour
MaxWrap == 2    \* fmt.Errorf("%w") layers put around an error

\* http.StatusInternalServerError
StatusInternalServerError == 500

\* const defaultCode = http.StatusInternalServerError
defaultCode == StatusInternalServerError

Versions == {"v1e", "v1", "v2a", "v2b", "v3"}
KeyedVersions == {"v1e", "v1", "v2a", "v2b"}

\* DefaultErrorRegistry and one registry made by the caller with NewErrorRegistry.
RegIds == {"DefaultErrorRegistry", "fresh"}

(***************************************************************************)
(* Error values.  An error is the sequence of the values of its wrap chain, *)
(* outermost first: Unwrap is Tail, and the nil error is the empty chain.   *)
(* A value is [typ, id]: its dynamic type and what tells two values of the  *)
(* type apart (the pointer, or the fields of a struct value).               *)
(***************************************************************************)
NilError == << >>

ErrorStringType == "errorString"   \* what errors.New returns
WrapErrorType == "wrapError"       \* what fmt.Errorf with %w returns
\* AError and AErrorOther are distinct types of two packages that share the
\* package name and the type name; QError has an Unwrap method; deadlineError
\* is the type of a sentinel that is not made by errors.New (such as
\* context.DeadlineExceeded); SliceError is an error type whose underlying
\* type is a slice.
ConcreteTypes == {"AError", "AErrorOther", "BError", "QError", "deadlineError",
                  "SliceError", ErrorStringType, WrapErrorType}
ErrorInterface == "error"

\* fmt.Sprintf("%T", v) for a value of dynamic type t.
TypeName(t) ==
    CASE t = "AError" -> "*ginerr.AError"
      [] t = "AErrorOther" -> "*ginerr.AError"
      [] t = "BError" -> "*ginerr.BError"
      [] t = "QError" -> "*ginerr.QError"
      [] t = "deadlineError" -> "ctx.deadlineError"
      [] t = "SliceError" -> "ginerr.SliceError"
      [] t = ErrorStringType -> "*errors.errorString"
      [] t = WrapErrorType -> "*fmt.wrapError"

A1 == <<[typ |-> "AError", id |-> "a1"]>>
A2 == <<[typ |-> "AError", id |-> "a2"]>>
AO == <<[typ |-> "AErrorOther", id |-> "ao"]>>
B1 == <<[typ |-> "BError", id |-> "b1"]>>
D1 == <<[typ |-> "deadlineError", id |-> "d1"]>>
SL1 == <<[typ |-> "SliceError", id |-> "sl1"]>>
\* errors.New("m1"), a second errors.New("m1"), errors.New("m2")
S1 == <<[typ |-> ErrorStringType, id |-> "s1"]>>
S1b == <<[typ |-> ErrorStringType, id |-> "s1b"]>>
S2 == <<[typ |-> ErrorStringType, id |-> "s2"]>>
\* a *QError whose Unwrap returns S1
QS1 == <<[typ |-> "QError", id |-> "q1"]>> \o S1

\* err.Error() of an errors.New value.
ErrorText(e) ==
    CASE e[1].id = "s1" -> "m1"
      [] e[1].id = "s1b" -> "m1"
      [] e[1].id = "s2" -> "m2"
      [] OTHER -> "other"

Messages == {"m1", "m2"}

\* fmt.Errorf("...: %w", e)
Wrap(e) == <<[typ |-> WrapErrorType, id |-> "w"]>> \o e

RECURSIVE WrapN(_, _)
WrapN(e, n) == IF n = 0 THEN e ELSE Wrap(WrapN(e, n - 1))

BaseErrors == {A1, A2, AO, B1, D1, S1, S1b, S2, QS1}
Wrappable == {A1, S1}

\* The errors handed to the resolve function.
Errors ==
    {NilError} \cup BaseErrors
        \cup {WrapN(e, n) : e \in Wrappable, n \in 1..MaxWrap}

\* The dynamic type name of an error as NewErrorResponseFrom computes it.
SprintfT(e) == IF e = NilError THEN "<nil>" ELSE TypeName(e[1].typ)

\* Whether a value of dynamic type t can be assigned to a variable of type E.
AssignableTo(t, E) == E = ErrorInterface \/ t = E

\* errors.As(err, &target) with target of type E: the index of the first value
\* of the chain assignable to E, 0 when there is none (As returns false).
AsIndex(err, E) ==
    LET hits == {i \in 1..Len(err) : AssignableTo(err[i].typ, E)}
    IN IF hits = {} THEN 0 ELSE CHOOSE i \in hits : \A j \in hits : i <= j

ErrorsAs(err, E) == AsIndex(err, E) # 0

\* What errors.As stores in the target: the chain from the value it found;
\* the target keeps its zero value when As returns false.
AsTarget(err, E) ==
    IF AsIndex(err, E) = 0 THEN NilError ELSE SubSeq(err, AsIndex(err, E), Len(err))

\* errors.Is(err, target): some value of the chain equals target.
ErrorsIs(err, target) ==
    \/ err = target
    \/ /\ target # NilError
       /\ \E i \in 1..Len(err) : err[i] = target[1]

\* err.(E), the type assertion of the v1 and v2 typed closures.
TypeAssertOk(err, E) == err # NilError /\ AssignableTo(err[1].typ, E)

(***************************************************************************)
(* Callbacks.  A callback is known by its identifier; what it returns is a  *)
(* function of the identifier and of the arguments it was called with, so   *)
(* that a result shows which callback ran and what it was given.            *)
(***************************************************************************)
Handlers == {"H1", "H2"}      \* callbacks handed to the Register*On functions
DefaultHandlers == {"D1"}     \* callbacks handed to RegisterDefaultHandler
NilFunc == "nil"              \* a nil function value
Builtin == "builtin"          \* the default handler v3's NewErrorRegistry installs

Contexts == {"ctx1", "ctx2"}
Background == "background"    \* context.Background()
NoCtx == "noctx"              \* the callback has no context parameter

NilResponse == [by |-> "nil"]             \* a nil payload
SomeResponse == [by |-> "unavailable"]    \* payloads given to SetDefaultResponse
OtherResponse == [by |-> "test"]

ErrArg(e) == [err |-> e]
StrArg(s) == [str |-> s]
NoArg == [none |-> TRUE]

HandlerCode(h) ==
    CASE h = "H1" -> 123
      [] h = "H2" -> 456
      [] h = "D1" -> 402
      [] OTHER -> 500

\* The context a callback of version ver gets to see: v1 callbacks have no
\* context parameter, and in v2a the callback H2 is of the form without one.
CtxSeen(ver, h, ctx) ==
    IF ver \in {"v1e", "v1"} \/ (ver = "v2a" /\ h = "H2") THEN NoCtx ELSE ctx

\* One call of callback h: what it was given and what it returned.
Invoke(kind, ver, h, ctx, arg) ==
    [kind |-> kind, h |-> h, ctx |-> CtxSeen(ver, h, ctx), arg |-> arg,
     code |-> HandlerCode(h),
     body |-> IF h = Builtin THEN NilResponse
              ELSE [by |-> h, ctx |-> CtxSeen(ver, h, ctx), arg |-> arg]]

\* The resolve function returned (code, body) without calling a callback.
StaticPair(reg) ==
    [kind |-> "static", h |-> "none", ctx |-> NoCtx, arg |-> NoArg,
     code |-> reg.DefaultCode, body |-> reg.DefaultResponse]

\* The resolve function did not return: a run-time panic.
Panic ==
    [kind |-> "panic", h |-> "none", ctx |-> NoCtx, arg |-> NoArg,
     code |-> 0, body |-> NilResponse]

\* The calls of function values held by the registry that a resolve makes
\* when its return statement yields out: the one call whose result it
\* returns, none for the static pair or a panic before the call.
Calls(out) == IF out.kind \in {"static", "panic"} THEN << >> ELSE <<out>>

(***************************************************************************)
(* Registries.                                                             *)
(***************************************************************************)
EmptyMap == [k \in {} |-> NilFunc]

\* Put that keeps the value a key already has.
PutIfAbsent(m, k, v) ==
    [x \in (DOMAIN m) \cup {k} |-> IF x \in DOMAIN m THEN m[x] ELSE v]

Put(m, k, v) == [x \in (DOMAIN m) \cup {k} |-> IF x = k THEN v ELSE m[x]]

\* The types whose values Go cannot compare or hash: slices, maps, functions
\* and the structs and arrays that hold them.
UncomparableTypes == {"SliceError"}

\* registry.handlers[instance] = ... of v3, a map keyed by the interface type
\* error: hashing a key whose dynamic type is not comparable is a run-time
\* panic; the nil interface is a key like any other.
MapAssignPanics(instance) ==
    instance # NilError /\ instance[1].typ \in UncomparableTypes

ErrorStringKey == "*errors.errorString"

\* The closure NewErrorRegistry stores under "*errors.errorString".
StringDispatcher == [kind |-> "dispatcher", E |-> "none", h |-> "none"]

\* NewErrorRegistry that leaves DefaultCode at the zero value.
NewErrorRegistryZeroCode(ver) ==
    [handlers |-> IF ver \in {"v1e", "v3"} THEN EmptyMap
                  ELSE Put(EmptyMap, ErrorStringKey, StringDispatcher),
     stringHandlers |-> EmptyMap,
     DefaultHandler |-> IF ver = "v3" THEN Builtin ELSE NilFunc,
     DefaultCode |-> 0,
     DefaultResponse |-> NilResponse]

NewErrorRegistry(ver) ==
    [handlers |-> IF ver \in {"v1e", "v3"} THEN EmptyMap
                  ELSE Put(EmptyMap, ErrorStringKey, StringDispatcher),
     stringHandlers |-> EmptyMap,
     DefaultHandler |-> IF ver = "v3" THEN Builtin ELSE NilFunc,
     DefaultCode |-> defaultCode,
     DefaultResponse |-> NilResponse]

\* defaultResponse that prefers a static pair once one has been set.
defaultResponseStaticFirst(reg, ctx, err) ==
    IF reg.DefaultHandler # NilFunc /\ reg.DefaultCode = defaultCode
    THEN Invoke("default", "v2b", reg.DefaultHandler, ctx, ErrArg(err))
    ELSE StaticPair(reg)

\* (e *ErrorRegistry) defaultResponse of v2b.
defaultResponse(reg, ctx, err) ==
    IF reg.DefaultHandler # NilFunc
    THEN Invoke("default", "v2b", reg.DefaultHandler, ctx, ErrArg(err))
    ELSE StaticPair(reg)

\* The dispatcher of every version returning the static pair, as v1's does.
DispatcherStaticPair(ver, reg, ctx, err) == StaticPair(reg)

\* A dispatcher that captured the static pair when NewErrorRegistry made the
\* registry, instead of reading the registry at the call.
DispatcherCreationTimePair(ver, reg, ctx, err) == StaticPair(NewErrorRegistry(ver))

\* What the string dispatcher returns when no string handler has the message.
DispatcherFallback(ver, reg, ctx, err) ==
    IF ver = "v2b" THEN defaultResponse(reg, ctx, err) ELSE StaticPair(reg)

\* entry(ctx, err): the call of a closure stored in registry.handlers.
CallEntry(ver, reg, entry, ctx, err) ==
    CASE entry.kind = "dispatcher" ->
            IF ErrorText(err) \in DOMAIN reg.stringHandlers
            THEN Invoke("string", ver, reg.stringHandlers[ErrorText(err)], ctx,
                        StrArg(ErrorText(err)))
            ELSE DispatcherFallback(ver, reg, ctx, err)
      [] entry.kind = "typed" ->
            IF TypeAssertOk(err, entry.E)
            THEN Invoke("typed", ver, entry.h, ctx, ErrArg(err))
            ELSE Panic
      [] entry.kind = "custom" ->
            Invoke("custom", ver, entry.h, ctx, ErrArg(err))

\* The resolve function answering an unmatched error with the default code
\* and the error itself as the payload.
KeyedResolveEchoingError(ver, reg, ctx, err) ==
    IF SprintfT(err) \in DOMAIN reg.handlers
    THEN CallEntry(ver, reg, reg.handlers[SprintfT(err)], ctx, err)
    ELSE [kind |-> "static", h |-> "none", ctx |-> NoCtx, arg |-> NoArg,
          code |-> reg.DefaultCode, body |-> [by |-> "error", arg |-> ErrArg(err)]]

\* A resolve function that walks the wrap chain: an error without an entry
\* for its own type name is resolved as the error it wraps.
RECURSIVE KeyedResolveUnwrapping(_, _, _, _)
KeyedResolveUnwrapping(ver, reg, ctx, err) ==
    IF SprintfT(err) \in DOMAIN reg.handlers
    THEN CallEntry(ver, reg, reg.handlers[SprintfT(err)], ctx, err)
    ELSE IF Len(err) > 1 THEN KeyedResolveUnwrapping(ver, reg, ctx, Tail(err))
    ELSE IF ver = "v2b" THEN defaultResponse(reg, ctx, err) ELSE StaticPair(reg)

\* NewErrorResponseFrom of v1e, v1 and v2b, NewContextErrorResponseFrom of v2a.
KeyedResolve(ver, reg, ctx, err) ==
    IF SprintfT(err) \in DOMAIN reg.handlers
    THEN CallEntry(ver, reg, reg.handlers[SprintfT(err)], ctx, err)
    ELSE IF ver = "v2b" THEN defaultResponse(reg, ctx, err) ELSE StaticPair(reg)

(***************************************************************************)
(* v3: registry.handlers maps the registered instance to an errorHandler.  *)
(***************************************************************************)
\* errorStringType
errorStringType == SprintfT(S1)

\* The errorHandler RegisterErrorHandlerOn[E] builds for instance and handler.
ErrorHandlerOf(E, instance, h) ==
    [E |-> E, isStringError |-> (SprintfT(instance) = errorStringType), h |-> h]

\* handler.isType(err): errors.As(err, &instance), instance of type E.
isType(handler, err) == ErrorsAs(err, handler.E)

\* handler.handle(ctx, err): errors.As into a fresh E, then the user's callback.
handle(handler, ctx, err) ==
    Invoke("typed", "v3", handler.h, ctx, ErrArg(AsTarget(err, handler.E)))

\* The loop body of NewErrorResponseFrom returns for this entry.
Accepts(errConcrete, handler, err) ==
    /\ isType(handler, err)
    /\ handler.isStringError => ErrorsIs(err, errConcrete)

\* The loop body passing the registered instance for every kind of entry.
EntryResultOfInstance(errConcrete, handler, ctx, err) ==
    handle(handler, ctx, errConcrete)

\* What the loop body returns for an entry it accepts.
EntryResult(errConcrete, handler, ctx, err) ==
    IF handler.isStringError
    THEN handle(handler, ctx, errConcrete)
    ELSE handle(handler, ctx, err)

\* registry.defaultHandler called with context.Background().
CallDefaultHandlerBackground(reg, ctx, err) ==
    IF reg.DefaultHandler = NilFunc THEN Panic
    ELSE Invoke("default", "v3", reg.DefaultHandler, Background, ErrArg(err))

\* registry.defaultHandler(ctx, err); calling a nil function value panics.
CallDefaultHandler(reg, ctx, err) ==
    IF reg.DefaultHandler = NilFunc THEN Panic
    ELSE Invoke("default", "v3", reg.DefaultHandler, ctx, ErrArg(err))

\* The instance variable captured by the isType closure of entry k is
\* assigned by every errors.As that succeeds on it.
CapturedWrite(reg, k, err) ==
    [key |-> k, val |-> AsTarget(err, reg.handlers[k].E)]

\* The loop of NewErrorResponseFrom without the return at the first entry
\* that accepts the error: a second accepting entry's handler is called too,
\* and the result of the last one is returned.
V3ResolveVisitingAll(reg, ctx, err) ==
    LET keys == DOMAIN reg.handlers
        accepting == {k \in keys : Accepts(k, reg.handlers[k], err)}
        passing == {k \in keys \ accepting : isType(reg.handlers[k], err)}
    IN IF accepting = {}
       THEN {[out |-> CallDefaultHandler(reg, ctx, err),
              writes |-> {CapturedWrite(reg, k, err) : k \in passing},
              calls |-> Calls(CallDefaultHandler(reg, ctx, err))]}
       ELSE {[out |-> EntryResult(k, reg.handlers[k], ctx, err),
              writes |-> {CapturedWrite(reg, i, err) : i \in passing \cup accepting},
              calls |-> IF j = k
                        THEN Calls(EntryResult(k, reg.handlers[k], ctx, err))
                        ELSE Calls(EntryResult(j, reg.handlers[j], ctx, err))
                                 \o Calls(EntryResult(k, reg.handlers[k], ctx, err))] :
                k \in accepting, j \in accepting}

\* NewErrorResponseFrom of v3.  The range over the map visits the entries in
\* an order the language leaves open: the first entry visited that accepts the
\* error decides, and the entries visited before it are any of the others.
V3Resolve(reg, ctx, err) ==
    LET keys == DOMAIN reg.handlers
        accepting == {k \in keys : Accepts(k, reg.handlers[k], err)}
        passing == {k \in keys \ accepting : isType(reg.handlers[k], err)}
    IN IF accepting = {}
       THEN {[out |-> CallDefaultHandler(reg, ctx, err),
              writes |-> {CapturedWrite(reg, k, err) : k \in passing},
              calls |-> Calls(CallDefaultHandler(reg, ctx, err))]}
       ELSE {[out |-> EntryResult(k, reg.handlers[k], ctx, err),
              writes |-> {CapturedWrite(reg, j, err) : j \in before \cup {k}},
              calls |-> Calls(EntryResult(k, reg.handlers[k], ctx, err))] :
                k \in accepting, before \in SUBSET passing}

\* The resolve function of each version: the set of results a call can have.
Resolutions(ver, reg, ctx, err) ==
    IF ver = "v3" THEN V3Resolve(reg, ctx, err)
    ELSE {[out |-> KeyedResolve(ver, reg, ctx, err), writes |-> {},
           calls |-> Calls(KeyedResolve(ver, reg, ctx, err))]}

(***************************************************************************)
(* Registration.                                                           *)
(***************************************************************************)
\* fmt.Sprintf("%R", *new(E)) of v1e: R is no verb, so the text is the
\* bad-verb form, never the text %T gives.
SprintfR(E) ==
    IF E = ErrorInterface THEN "%!R(<nil>)" ELSE "%!R(" \o TypeName(E) \o "={})"

\* The key of v1e, the bad-verb text, in every version.
TypedKeyBadVerb(ver, E, instance) == SprintfR(E)

\* The key RegisterErrorHandlerOn[E] stores the typed closure under.
TypedKey(ver, E, instance) ==
    CASE ver = "v1e" -> SprintfR(E)
      [] ver = "v2a" -> SprintfT(instance)
      [] OTHER -> IF E = ErrorInterface THEN "<nil>" ELSE TypeName(E)

\* The (type parameter, instance) pairs a caller registers.  v1e, v1 and v2b
\* take no instance; v2a and v3 take one of static type E.
TypedRegistrations(ver) ==
    CASE ver = "v3" ->
            {<<"AError", A1>>, <<"AError", A2>>, <<ErrorInterface, S1>>,
             <<ErrorInterface, S2>>, <<ErrorInterface, D1>>, <<"SliceError", SL1>>}
      [] ver = "v2a" ->
            {<<"AError", A1>>, <<"AErrorOther", AO>>, <<ErrorInterface, NilError>>,
             <<ErrorInterface, S1>>}
      [] OTHER ->
            {<<"AError", NilError>>, <<"AErrorOther", NilError>>,
             <<ErrorInterface, NilError>>}

\* The names given to RegisterCustomErrorTypeHandlerOn.
CustomNames == {ErrorStringKey, TypeName("AError")}

\* The registry after RegisterErrorHandlerOn; when v3's map assignment panics
\* nothing has been stored.
WithErrorHandler(ver, reg, E, instance, h) ==
    IF ver = "v3"
    THEN IF MapAssignPanics(instance) THEN reg
         ELSE [reg EXCEPT !.handlers = Put(@, instance, ErrorHandlerOf(E, instance, h))]
    ELSE [reg EXCEPT !.handlers =
              Put(@, TypedKey(ver, E, instance), [kind |-> "typed", E |-> E, h |-> h])]

\* RegisterCustomErrorTypeHandlerOn storing the handler among the string
\* handlers.
WithCustomAsStringHandler(reg, errorType, h) ==
    [reg EXCEPT !.stringHandlers = Put(@, errorType, h)]

\* The registry after RegisterCustomErrorTypeHandlerOn.
WithCustomHandler(reg, errorType, h) ==
    [reg EXCEPT !.handlers = Put(@, errorType, [kind |-> "custom", E |-> "none", h |-> h])]

\* RegisterStringErrorHandlerOn storing the handler under the message in
\* registry.handlers.
WithStringAsCustomHandler(ver, reg, errorString, h) ==
    [reg EXCEPT !.handlers = Put(@, errorString, [kind |-> "custom", E |-> "none", h |-> h])]

\* RegisterStringErrorHandlerOn installing the string dispatcher whatever
\* the key holds.
WithStringHandlerInstalling(ver, reg, errorString, h) ==
    [reg EXCEPT !.stringHandlers = Put(@, errorString, h),
                !.handlers = Put(@, ErrorStringKey, StringDispatcher)]

\* The registry after RegisterStringErrorHandlerOn; v1e installs the string
\* dispatcher here, when the key holds nothing yet.
WithStringHandler(ver, reg, errorString, h) ==
    [reg EXCEPT !.stringHandlers = Put(@, errorString, h),
                !.handlers = IF ver = "v1e" /\ ErrorStringKey \notin DOMAIN @
                             THEN Put(@, ErrorStringKey, StringDispatcher)
                             ELSE @]

\* The registry after (e *ErrorRegistry) SetDefaultResponse(code, response).
WithDefaultResponse(reg, code, response) ==
    [reg EXCEPT !.DefaultCode = code, !.DefaultResponse = response]

\* The registry after (e *ErrorRegistry) RegisterDefaultHandler(callback).
WithDefaultHandler(reg, callback) ==
    [reg EXCEPT !.DefaultHandler = callback]

\* A mutating call that writes state all registries share.
MutateShared(r, reg) ==
    /\ last.op = "none"
    /\ ncalls < MaxCalls
    /\ ncalls' = ncalls + 1
    /\ registries' = [x \in RegIds |-> reg]
    /\ last' = [op |-> "none"]
    /\ UNCHANGED version

\* A mutating call on registry r.
Mutate(r, reg) ==
    /\ last.op = "none"
    /\ ncalls < MaxCalls
    /\ ncalls' = ncalls + 1
    /\ registries' = [registries EXCEPT ![r] = reg]
    /\ last' = [op |-> "none"]
    /\ UNCHANGED version

\* A registering call on registry r that panics: last keeps the call that
\* did not complete, and the caller that recovers goes on.
Panicking(op, r, instance) ==
    /\ last.op = "none"
    /\ ncalls < MaxCalls
    /\ ncalls' = ncalls + 1
    /\ last' = [op |-> "none", panicked |-> [op |-> op, reg |-> r, instance |-> instance]]
    /\ UNCHANGED <<version, registries>>

RegisterErrorHandlerOn(r) ==
    \E p \in TypedRegistrations(version), h \in Handlers :
        IF version = "v3" /\ MapAssignPanics(p[2])
        THEN Panicking("RegisterErrorHandlerOn", r, p[2])
        ELSE Mutate(r, WithErrorHandler(version, registries[r], p[1], p[2], h))

RegisterErrorHandler == RegisterErrorHandlerOn("DefaultErrorRegistry")

RegisterCustomErrorTypeHandlerOn(r) ==
    /\ version \in KeyedVersions
    /\ \E errorType \in CustomNames, h \in Handlers :
           Mutate(r, WithCustomHandler(registries[r], errorType, h))

RegisterCustomErrorTypeHandler == RegisterCustomErrorTypeHandlerOn("DefaultErrorRegistry")

RegisterStringErrorHandlerOn(r) ==
    /\ version \in KeyedVersions
    /\ \E errorString \in Messages, h \in Handlers :
           Mutate(r, WithStringHandler(version, registries[r], errorString, h))

RegisterStringErrorHandler == RegisterStringErrorHandlerOn("DefaultErrorRegistry")

\* The (code, response) pairs given to SetDefaultResponse.
DefaultPairs == {<<503, SomeResponse>>, <<123, OtherResponse>>}

SetDefaultResponse(r) ==
    /\ version \in KeyedVersions
    /\ \E p \in DefaultPairs :
           Mutate(r, WithDefaultResponse(registries[r], p[1], p[2]))

RegisterDefaultHandler(r) ==
    /\ version \in {"v2b", "v3"}
    /\ \E callback \in DefaultHandlers \cup {NilFunc} :
           Mutate(r, WithDefaultHandler(registries[r], callback))

(***************************************************************************)
(* Resolving.  The calls of one behaviour follow one another.  last holds   *)
(* the call of a resolve function that has just returned: its entry point,  *)
(* its arguments, the callback it invoked and what it returned; the caller  *)
(* takes the result (Return) before the next call.                          *)
(***************************************************************************)
\* A resolve that consumes the registry: it leaves the registry as
\* NewErrorRegistry makes it.
ResolveConsuming(op, r, ctx, err) ==
    /\ last.op = "none"
    /\ \E res \in Resolutions(version, registries[r], ctx, err) :
           last' = [op |-> op, reg |-> r, ctx |-> ctx, err |-> err,
                    out |-> res.out, writes |-> res.writes, calls |-> res.calls]
    /\ registries' = [registries EXCEPT ![r] = NewErrorRegistry(version)]
    /\ UNCHANGED <<version, ncalls>>

Resolve(op, r, ctx, err) ==
    /\ last.op = "none"
    /\ \E res \in Resolutions(version, registries[r], ctx, err) :
           last' = [op |-> op, reg |-> r, ctx |-> ctx, err |-> err,
                    out |-> res.out, writes |-> res.writes, calls |-> res.calls]
    /\ UNCHANGED <<version, registries, ncalls>>

\* The contexts NewErrorResponseFrom passes on: v1 has none, and v2a's
\* NewErrorResponseFrom passes context.Background().
FromContexts ==
    CASE version \in {"v1e", "v1"} -> {NoCtx}
      [] version = "v2a" -> {Background}
      [] OTHER -> Contexts

NewErrorResponseFrom(r) ==
    \E ctx \in FromContexts, err \in Errors :
        Resolve("NewErrorResponseFrom", r, ctx, err)

\* NewErrorResponse resolving on a registry of its own making.
NewErrorResponseOnNewRegistry ==
    /\ last.op = "none"
    /\ \E ctx \in FromContexts, err \in Errors :
           \E res \in Resolutions(version, NewErrorRegistry(version), ctx, err) :
               last' = [op |-> "NewErrorResponse", reg |-> "DefaultErrorRegistry",
                        ctx |-> ctx, err |-> err, out |-> res.out,
                        writes |-> res.writes, calls |-> res.calls]
    /\ UNCHANGED <<version, registries, ncalls>>

NewErrorResponse ==
    \E ctx \in FromContexts, err \in Errors :
        Resolve("NewErrorResponse", "DefaultErrorRegistry", ctx, err)

NewContextErrorResponseFrom(r) ==
    /\ version = "v2a"
    /\ \E ctx \in Contexts, err \in Errors :
           Resolve("NewContextErrorResponseFrom", r, ctx, err)

NewContextErrorResponse ==
    /\ version = "v2a"
    /\ \E ctx \in Contexts, err \in Errors :
           Resolve("NewContextErrorResponse", "DefaultErrorRegistry", ctx, err)

\* The caller has taken the result of the call.
Return ==
    /\ last.op # "none"
    /\ last' = [op |-> "none"]
    /\ UNCHANGED <<version, registries, ncalls>>

Init ==
    /\ version \in Versions
    /\ registries = [r \in RegIds |-> NewErrorRegistry(version)]
    /\ ncalls = 0
    /\ last = [op |-> "none"]

Next ==
    \/ \E r \in RegIds : RegisterErrorHandlerOn(r)
    \/ RegisterErrorHandler
    \/ \E r \in RegIds : RegisterCustomErrorTypeHandlerOn(r)
    \/ RegisterCustomErrorTypeHandler
    \/ \E r \in RegIds : RegisterStringErrorHandlerOn(r)
    \/ RegisterStringErrorHandler
    \/ \E r \in RegIds : SetDefaultResponse(r)
    \/ \E r \in RegIds : RegisterDefaultHandler(r)
    \/ \E r \in RegIds : NewErrorResponseFrom(r)
    \/ NewErrorResponse
    \/ \E r \in RegIds : NewContextErrorResponseFrom(r)
    \/ NewContextErrorResponse
    \/ Return

Spec == Init /\ [][Next]_vars

(***************************************************************************)
(* Properties.                                                             *)
(***************************************************************************)
\* A resolve function has just returned; last describes the call.
Called == last.op # "none"

\* The registry the call of last was made on (no call has changed it since).
Reg == registries[last.reg]

\* No call is under way: the registries are as the calls so far left them.
Idle == last.op = "none"

\* The chains made of s alone or of s under fmt.Errorf("%w") layers.
WrapsOf(s) == {WrapN(s, n) : n \in 0..MaxWrap}

\* No registered handler matches err: in v3 no entry accepts it; in the keyed
\* versions its type name has no entry, or it reaches the string dispatcher
\* and its message has no string handler.
Unmatched(ver, reg, err) ==
    IF ver = "v3"
    THEN \A k \in DOMAIN reg.handlers : ~Accepts(k, reg.handlers[k], err)
    ELSE \/ SprintfT(err) \notin DOMAIN reg.handlers
         \/ /\ reg.handlers[SprintfT(err)].kind = "dispatcher"
            /\ ErrorText(err) \notin DOMAIN reg.stringHandlers

\* C1: v3, a registry whose only registration is (inst, h) with inst of a
\* concrete type T other than errorString: resolving an unwrapped error e of
\* dynamic type T, whatever its value, invokes h with (ctx, e) and returns
\* what h returned.
C1_OnlyTypedRegistration ==
    (version = "v3" /\ Called) =>
        \A inst \in DOMAIN Reg.handlers :
            ( /\ DOMAIN Reg.handlers = {inst}
              /\ inst[1].typ # ErrorStringType
              /\ Len(last.err) = 1
              /\ last.err[1].typ = inst[1].typ )
            => last.out = Invoke("typed", "v3", Reg.handlers[inst].h, last.ctx,
                                 ErrArg(last.err))

\* C1 witness: only A1 is registered and an AError value other than A1 was
\* resolved by the registered handler, which was given that value.
C1_Witness ==
    /\ version = "v3" /\ Called
    /\ DOMAIN Reg.handlers = {A1}
    /\ last.err = A2
    /\ last.out.kind = "typed"
    /\ last.out.h = Reg.handlers[A1].h
    /\ last.out.arg = ErrArg(A2)

\* C2 as stated: v3, a sentinel s made by errors.New is registered with h:
\* resolving s, or s under any number of %w layers, returns h's result and h
\* is given s itself.
C2_SentinelGetsRegisteredValue ==
    (version = "v3" /\ Called) =>
        \A s \in DOMAIN Reg.handlers :
            (s[1].typ = ErrorStringType /\ last.err \in WrapsOf(s))
            => last.out = Invoke("typed", "v3", Reg.handlers[s].h, last.ctx, ErrArg(s))

\* C3 as stated: v3, a handler h is registered for the concrete type T and
\* the resolved error holds a value of type T somewhere in its chain: h is
\* selected and is given the first such value, not the outer error.
C3_WrappedTypeGetsInnerValue ==
    (version = "v3" /\ Called) =>
        \A k \in DOMAIN Reg.handlers :
            ( /\ Reg.handlers[k].E # ErrorInterface
              /\ ErrorsAs(last.err, Reg.handlers[k].E) )
            => last.out = Invoke("typed", "v3", Reg.handlers[k].h, last.ctx,
                                 ErrArg(AsTarget(last.err, Reg.handlers[k].E)))

\* The fallback of a registry for (ctx, err): the default handler's result
\* when one is set, else the static pair (DefaultCode, DefaultResponse).
ExpectedFallback(ver, reg, ctx, err) ==
    IF ver \in {"v2b", "v3"} /\ reg.DefaultHandler # NilFunc
    THEN Invoke("default", ver, reg.DefaultHandler, ctx, ErrArg(err))
    ELSE [kind |-> "static", h |-> "none", ctx |-> NoCtx, arg |-> NoArg,
          code |-> reg.DefaultCode, body |-> reg.DefaultResponse]

\* v3 has no static pair: with a nil function as its default handler it has
\* neither of the two fallbacks the claim speaks of.
HasFallback(ver, reg) == ver = "v3" => reg.DefaultHandler # NilFunc

C5_FreshRegistryGives500Nil ==
    (Called /\ Reg = NewErrorRegistry(version)) =>
        /\ last.out.kind # "panic"
        /\ last.out.code = 500
        /\ last.out.body = NilResponse

\* C5 witness: after calls on the other registry, a typed error was resolved
\* on a registry still as NewErrorRegistry made it.
C5_Witness ==
    /\ Called /\ ncalls = MaxCalls
    /\ Reg = NewErrorRegistry(version)
    /\ last.err = B1
    /\ last.out.code = 500

\* C5 witness for an errors.New error, in v2b.
C5_WitnessErrorString ==
    /\ Called /\ version = "v2b"
    /\ Reg = NewErrorRegistry(version)
    /\ last.err = S1
    /\ last.out.code = 500

\* v1 (src/errors.go) and the two generations of src/v2/errors.go.
V12 == {"v1", "v2a", "v2b"}

\* The contexts a resolve function of the version can pass to a callback.
ResolveContexts == IF version = "v2a" THEN Contexts \cup {Background} ELSE FromContexts

\* The unwrapped errors whose dynamic type is exactly E.
ErrorsOfType(E) == {err \in Errors : Len(err) = 1 /\ err[1].typ = E}

\* The errors.New errors whose message is s.
ErrorsNew(s) == {err \in ErrorsOfType(ErrorStringType) : ErrorText(err) = s}

\* The (E, instance) pairs registered with E a concrete error type.
ConcreteRegistrations(ver) == {p \in TypedRegistrations(ver) : p[1] # ErrorInterface}

\* C6: v1 and v2, after RegisterErrorHandlerOn[E](reg, h) with E a concrete
\* error type, resolving any error whose dynamic type is exactly E invokes h
\* with that same error value and returns what h returned; and so does every
\* resolve that finds the closure registered for E under the error's type name.
C6_TypedHandlerGetsSameError ==
    /\ (Idle /\ version \in V12) =>
           \A r \in RegIds, p \in ConcreteRegistrations(version), h \in Handlers,
              ctx \in ResolveContexts :
               \A err \in ErrorsOfType(p[1]) :
                   KeyedResolve(version,
                                WithErrorHandler(version, registries[r], p[1], p[2], h),
                                ctx, err)
                       = Invoke("typed", version, h, ctx, ErrArg(err))
    /\ (Called /\ version \in V12 /\ last.err # NilError
               /\ SprintfT(last.err) \in DOMAIN Reg.handlers) =>
           LET entry == Reg.handlers[SprintfT(last.err)]
           IN (entry.kind = "typed" /\ entry.E = last.err[1].typ)
                  => last.out = Invoke("typed", version, entry.h, last.ctx,
                                       ErrArg(last.err))

\* C6 witness: v2b, a handler registered for AError was given the AError
\* value a2 that was resolved, together with the context of the call.
C6_Witness ==
    /\ version = "v2b" /\ Called
    /\ last.err = A2
    /\ SprintfT(A2) \in DOMAIN Reg.handlers
    /\ Reg.handlers[SprintfT(A2)].kind = "typed"
    /\ Reg.handlers[SprintfT(A2)].E = "AError"
    /\ last.out.kind = "typed"
    /\ last.out.h = Reg.handlers[SprintfT(A2)].h
    /\ last.out.arg = ErrArg(A2)
    /\ last.out.ctx = "ctx2"

\* The closure under "*errors.errorString" is the string dispatcher
\* NewErrorRegistry stored: neither a custom handler nor a typed handler
\* (v2a: RegisterErrorHandlerOn with an errors.New instance) replaced it.
DispatcherInPlace(reg) ==
    /\ ErrorStringKey \in DOMAIN reg.handlers
    /\ reg.handlers[ErrorStringKey].kind = "dispatcher"

\* No custom handler is registered under "*errors.errorString".
NoCustomErrorStringHandler(reg) ==
    ErrorStringKey \in DOMAIN reg.handlers => reg.handlers[ErrorStringKey].kind # "custom"

\* C7 as amended: v1 and v2, on a registry whose "*errors.errorString" entry
\* is still the string dispatcher, after RegisterStringErrorHandlerOn(reg, s,
\* h) resolving an errors.New error with message s invokes h with the string
\* s (and the ctx in v2) and returns what h returned; with several string
\* handlers each message goes to the handler registered for that message.
C7_StringHandlerWhileDispatcher ==
    /\ (Idle /\ version \in V12) =>
           \A r \in RegIds, s \in Messages, h \in Handlers, ctx \in ResolveContexts :
               LET reg == WithStringHandler(version, registries[r], s, h)
               IN DispatcherInPlace(reg) =>
                      \A err \in ErrorsNew(s) :
                          KeyedResolve(version, reg, ctx, err)
                              = Invoke("string", version, h, ctx, StrArg(s))
    /\ (Called /\ version \in V12 /\ DispatcherInPlace(Reg)) =>
           \A s \in DOMAIN Reg.stringHandlers :
               last.err \in ErrorsNew(s)
                   => last.out = Invoke("string", version, Reg.stringHandlers[s],
                                        last.ctx, StrArg(s))

\* C7 witness: v2a, two string handlers are registered, the dispatcher is in
\* place, and the error with message m2 went to the handler of m2, which is
\* not the handler of m1.
C7_Witness ==
    /\ version = "v2a" /\ Called
    /\ DispatcherInPlace(Reg)
    /\ DOMAIN Reg.stringHandlers = Messages
    /\ Reg.stringHandlers["m1"] # Reg.stringHandlers["m2"]
    /\ last.err = S2
    /\ last.out.kind = "string"
    /\ last.out.h = Reg.stringHandlers["m2"]
    /\ last.out.arg = StrArg("m2")

\* C7 as stated: v1 and v2, on a registry with no custom handler under
\* "*errors.errorString", an errors.New error whose message has a string
\* handler is resolved by that handler, which is given the message.
C7_StringHandlerUnlessCustom ==
    (Called /\ version \in V12 /\ NoCustomErrorStringHandler(Reg)) =>
        \A s \in DOMAIN Reg.stringHandlers :
            last.err \in ErrorsNew(s)
                => last.out = Invoke("string", version, Reg.stringHandlers[s],
                                     last.ctx, StrArg(s))

\* C8: v1 and v2, after RegisterCustomErrorTypeHandlerOn(reg, name, h),
\* resolving any error whose %T text is name invokes h with the error as it
\* was passed (and the ctx in v2) and returns what h returned, whatever the
\* error's message.
C8_CustomHandlerByTypeName ==
    /\ (Idle /\ version \in V12) =>
           \A r \in RegIds, name \in CustomNames, h \in Handlers,
              ctx \in ResolveContexts :
               \A err \in {e \in Errors : SprintfT(e) = name} :
                   KeyedResolve(version, WithCustomHandler(registries[r], name, h),
                                ctx, err)
                       = Invoke("custom", version, h, ctx, ErrArg(err))
    /\ (Called /\ version \in V12 /\ SprintfT(last.err) \in DOMAIN Reg.handlers) =>
           LET entry == Reg.handlers[SprintfT(last.err)]
           IN entry.kind = "custom"
                  => last.out = Invoke("custom", version, entry.h, last.ctx,
                                       ErrArg(last.err))

\* C8 witness: v1, a custom handler under "*errors.errorString" and a string
\* handler for m2 are registered, and the errors.New error with message m2
\* went to the custom handler, which was given the error.
C8_Witness ==
    /\ version = "v1" /\ Called
    /\ Reg.handlers[ErrorStringKey].kind = "custom"
    /\ "m2" \in DOMAIN Reg.stringHandlers
    /\ last.err = S2
    /\ last.out.kind = "custom"
    /\ last.out.h = Reg.handlers[ErrorStringKey].h
    /\ last.out.arg = ErrArg(S2)

\* C9: v2b, whatever the order of the SetDefaultResponse and
\* RegisterDefaultHandler calls, when the latest RegisterDefaultHandler gave a
\* non-nil handler an unmatched resolve returns that handler's result and
\* never the static pair.
C9_DefaultHandlerBeatsStaticPair ==
    /\ (Called /\ version = "v2b" /\ Reg.DefaultHandler \in DefaultHandlers
               /\ Unmatched(version, Reg, last.err)) =>
           /\ last.out = Invoke("default", "v2b", Reg.DefaultHandler, last.ctx,
                                ErrArg(last.err))
           /\ last.out.kind # "static"
    /\ (Idle /\ version = "v2b") =>
           \A r \in RegIds, p \in DefaultPairs, d \in DefaultHandlers,
              ctx \in Contexts, err \in Errors :
               LET handlerLast ==
                       WithDefaultHandler(
                           WithDefaultResponse(registries[r], p[1], p[2]), d)
                   pairLast ==
                       WithDefaultResponse(
                           WithDefaultHandler(registries[r], d), p[1], p[2])
               IN Unmatched(version, registries[r], err) =>
                      /\ KeyedResolve(version, handlerLast, ctx, err)
                             = Invoke("default", "v2b", d, ctx, ErrArg(err))
                      /\ KeyedResolve(version, pairLast, ctx, err)
                             = Invoke("default", "v2b", d, ctx, ErrArg(err))

\* C9 witness: the two mutating calls were SetDefaultResponse(123, "test")
\* and RegisterDefaultHandler(D1), and an error without a handler got the
\* result of D1.
C9_Witness ==
    /\ version = "v2b" /\ Called /\ ncalls = 2
    /\ Reg = WithDefaultHandler(
                 WithDefaultResponse(NewErrorRegistry("v2b"), 123, OtherResponse), "D1")
    /\ last.err = B1
    /\ last.out.kind = "default"
    /\ last.out.h = "D1"
    /\ last.out.code = HandlerCode("D1")

EntriesOfType(reg, T) == {k \in DOMAIN reg.handlers : k[1].typ = T}

\* C11 as stated: v3, registering twice for one error type with different
\* handlers, each time with its own instance of the type, leaves one entry
\* for the type in the registry, and every later error of the type gets the
\* result of the handler that entry holds.
C11_SecondInstanceReplacesFirst ==
    version = "v3" =>
        /\ \A r \in RegIds, T \in ConcreteTypes \ {ErrorStringType} :
               Cardinality(EntriesOfType(registries[r], T)) <= 1
        /\ (Called /\ Len(last.err) = 1 /\ last.err[1].typ # ErrorStringType) =>
               \A k \in EntriesOfType(Reg, last.err[1].typ) :
                   last.out = Invoke("typed", "v3", Reg.handlers[k].h, last.ctx,
                                     ErrArg(last.err))

\* What the resolve function of the version can return for every context and
\* error on registry reg.
ResolveTable(ver, reg) ==
    [ctx \in Contexts \cup {Background, NoCtx}, err \in Errors |->
        {res.out : res \in Resolutions(ver, reg, ctx, err)}]

\* C12: in every version the registries made by separate NewErrorRegistry
\* calls are independent: a registration or a change of the defaults on one
\* registry leaves the other registry, and what resolve returns on it for
\* every context and error, as they were.
C12_RegistriesIndependent ==
    [][\A r \in RegIds :
           registries'[r] # registries[r] =>
               \A o \in RegIds \ {r} :
                   /\ registries'[o] = registries[o]
                   /\ ResolveTable(version', registries'[o])
                          = ResolveTable(version, registries[o])]_vars

\* C12 witness: v2b, two mutating calls changed DefaultErrorRegistry, which
\* now has a string handler for m1, and the errors.New error with message m1
\* resolved on the fresh registry went through its string dispatcher to the
\* (500, nil) of NewErrorRegistry.
C12_Witness ==
    /\ version = "v2b" /\ Called /\ ncalls = 2
    /\ "m1" \in DOMAIN registries["DefaultErrorRegistry"].stringHandlers
    /\ registries["DefaultErrorRegistry"].DefaultCode # defaultCode
    /\ last.reg = "fresh"
    /\ registries["fresh"] = NewErrorRegistry("v2b")
    /\ last.err = S1
    /\ last.out = StaticPair(NewErrorRegistry("v2b"))

\* The generations whose resolve function takes a context.
ContextVersions == {"v2a", "v2b", "v3"}

\* The callback a result came from and the error or string it was given.
CallbackOf(out) == [kind |-> out.kind, h |-> out.h, arg |-> out.arg, code |-> out.code]

\* The callbacks a resolve with context ctx can invoke.
CallbacksFor(ver, reg, ctx, err) ==
    {CallbackOf(res.out) : res \in Resolutions(ver, reg, ctx, err)}

\* The callback has a context parameter (v2a accepts callbacks without one).
TakesContext(ver, h) == CtxSeen(ver, h, "ctx1") = "ctx1"

\* C13: v2 and v3, the callback that runs (typed, string, custom or default
\* handler) is given the very context the resolve function was given, when
\* it takes one, and no context otherwise; and the callbacks a resolve can
\* invoke are the same for every context.
C13_ContextPassedUnchanged ==
    /\ (Called /\ version \in ContextVersions
               /\ last.out.kind \in {"typed", "string", "custom", "default"}) =>
           last.out.ctx = IF TakesContext(version, last.out.h) THEN last.ctx ELSE NoCtx
    /\ (Idle /\ version \in ContextVersions) =>
           \A r \in RegIds, err \in Errors :
               CallbacksFor(version, registries[r], "ctx1", err)
                   = CallbacksFor(version, registries[r], "ctx2", err)

\* C13 witness: v3, a default handler was registered and an error without a
\* matching entry was resolved with ctx2: the default handler was given ctx2.
C13_Witness ==
    /\ version = "v3" /\ Called
    /\ Reg.DefaultHandler = "D1"
    /\ last.ctx = "ctx2"
    /\ last.out.kind = "default"
    /\ last.out.h = "D1"
    /\ last.out.ctx = "ctx2"
    /\ last.out.body.ctx = "ctx2"

\* C14 as stated: in every version, resolving a nil error does not panic and
\* returns the fallback (the default handler's result, or the static pair),
\* whatever handlers were registered for concrete types, for the interface
\* type error, for strings and for custom type names.
C14_NilErrorGetsFallback ==
    (Called /\ last.err = NilError /\ HasFallback(version, Reg)) =>
        /\ last.out.kind # "panic"
        /\ last.out = ExpectedFallback(version, Reg, last.ctx, NilError)

\* C15 as stated: in every version, in every registry state the public
\* operations lead to, the resolve function returns a (status, payload) pair
\* for every non-nil error: it never panics.
C15_ResolveNeverPanics ==
    (Called /\ last.err # NilError) => last.out.kind # "panic"

\* The entries of a v3 registry for which the loop of NewErrorResponseFrom
\* returns when it visits them with err.
MatchingEntries(reg, err) ==
    {k \in DOMAIN reg.handlers : Accepts(k, reg.handlers[k], err)}

\* C16 as stated: v3, in every reachable registry state and for every error,
\* at most one registered entry matches the error.
C16_AtMostOneEntryMatches ==
    version = "v3" =>
        \A r \in RegIds, err \in Errors :
            Cardinality(MatchingEntries(registries[r], err)) <= 1

\* The results the resolve function can have on a registry, a context and an
\* error, over the orders in which the registry's entries can be visited.
Outcomes(ver, reg, ctx, err) == {res.out : res \in Resolutions(ver, reg, ctx, err)}

\* C17 as stated: in every version the resolve function is deterministic: the
\* registry state, the context and the error fix the callback invoked and the
\* (status, payload) returned, whatever the order in which the entries are
\* visited.
C17_ResolveDeterministic ==
    \A r \in RegIds, ctx \in Contexts \cup {Background, NoCtx}, err \in Errors :
        Cardinality(Outcomes(version, registries[r], ctx, err)) = 1

\* The shared variables a resolve call assigns: the instance variables
\* captured by the isType closures of the entries whose errors.As succeeds.
WrittenBy(res) == {w.key : w \in res.writes}

\* C18 as stated: once registration has finished, two concurrent resolve
\* calls on one registry never access a shared variable that one of them
\* writes: no variable is assigned by both calls.  (No resolve reads a
\* captured instance variable, so the conflicts are those between writes.)
C18_ConcurrentResolvesDoNotConflict ==
    Idle =>
        \A r \in RegIds, ctx \in Contexts, err1 \in Errors, err2 \in Errors :
            \A res1 \in Resolutions(version, registries[r], ctx, err1),
               res2 \in Resolutions(version, registries[r], ctx, err2) :
                WrittenBy(res1) \cap WrittenBy(res2) = {}

\* The callbacks a registry holds: the handlers registered on it and its
\* default handler.
RegisteredCallbacks(ver, reg) ==
    ( {reg.handlers[k].h : k \in DOMAIN reg.handlers}
      \cup {reg.stringHandlers[s] : s \in DOMAIN reg.stringHandlers}
      \cup {reg.DefaultHandler} ) \ {"none", NilFunc}

\* The (status, payload) of a result.
Response(out) == <<out.code, out.body>>

\* The fallback of the registry is the static pair.
StaticFallback(ver, reg) == ver \in KeyedVersions /\ reg.DefaultHandler = NilFunc

\* C19: what the resolve function returns is what a callback held by the
\* registry returned, or the static pair the registry is configured with;
\* and when the fallback is the static pair, any two errors that match no
\* handler get the identical (status, payload), whatever their message, type
\* and the context.
C19_OutputOnlyFromCallbacksOrDefault ==
    /\ (Called /\ last.out.kind # "panic") =>
           \/ /\ last.out.kind = "static"
              /\ Response(last.out) = <<Reg.DefaultCode, Reg.DefaultResponse>>
           \/ /\ last.out.kind \in {"typed", "string", "custom", "default"}
              /\ last.out.h \in RegisteredCallbacks(version, Reg)
              /\ last.out.code = HandlerCode(last.out.h)
              /\ last.out.body \in {NilResponse,
                                    [by |-> last.out.h, ctx |-> last.out.ctx,
                                     arg |-> last.out.arg]}
    /\ Idle =>
           \A r \in RegIds :
               StaticFallback(version, registries[r]) =>
                   LET unmatched == {err \in Errors : Unmatched(version, registries[r], err)}
                   IN \A err1 \in unmatched, err2 \in unmatched :
                          Response(KeyedResolve(version, registries[r], "ctx1", err1))
                              = Response(KeyedResolve(version, registries[r], "ctx2", err2))

\* C19 witness: v1, the static pair was set to (503, ...) and a handler was
\* registered; an error that matches no handler got exactly the static pair.
C19_Witness ==
    /\ version = "v1" /\ Called /\ ncalls = 2
    /\ Reg.DefaultCode = 503
    /\ RegisteredCallbacks(version, Reg) # {}
    /\ last.err = Wrap(S1)
    /\ Unmatched(version, Reg, last.err)
    /\ Response(last.out) = <<503, SomeResponse>>

\* C20: in every version the package-level functions behave as their On and
\* From variants called with DefaultErrorRegistry: a package-level
\* registration is a step of the On variant on DefaultErrorRegistry and
\* leaves a registry made by NewErrorRegistry as it was, and NewErrorResponse
\* returns a result NewErrorResponseFrom has on DefaultErrorRegistry for the
\* same context and error.
C20_PackageLevelUsesDefaultRegistry ==
    [][/\ RegisterErrorHandler =>
              /\ RegisterErrorHandlerOn("DefaultErrorRegistry")
              /\ registries'["fresh"] = registries["fresh"]
       /\ RegisterCustomErrorTypeHandler =>
              /\ RegisterCustomErrorTypeHandlerOn("DefaultErrorRegistry")
              /\ registries'["fresh"] = registries["fresh"]
       /\ RegisterStringErrorHandler =>
              /\ RegisterStringErrorHandlerOn("DefaultErrorRegistry")
              /\ registries'["fresh"] = registries["fresh"]
       /\ (NewErrorResponse \/ NewContextErrorResponse) =>
              /\ last'.reg = "DefaultErrorRegistry"
              /\ \E res \in Resolutions(version, registries["DefaultErrorRegistry"],
                                        last'.ctx, last'.err) :
                     last'.out = res.out /\ last'.writes = res.writes
              /\ registries' = registries]_vars

\* C20 witness: v3, a handler was registered on DefaultErrorRegistry, the
\* registry made by NewErrorRegistry is untouched, and NewErrorResponse gave
\* an AError to that handler.
C20_Witness ==
    /\ version = "v3" /\ Called
    /\ last.op = "NewErrorResponse"
    /\ DOMAIN registries["DefaultErrorRegistry"].handlers = {A1}
    /\ registries["fresh"] = NewErrorRegistry("v3")
    /\ last.err = A1
    /\ last.out = Invoke("typed", "v3", registries["DefaultErrorRegistry"].handlers[A1].h,
                         last.ctx, ErrArg(A1))

\* C21 as stated: src/unnamed/part_001, after RegisterErrorHandlerOn[E](reg,
\* h) with E a concrete error type, resolving an error of dynamic type E
\* finds the handler (the key it is stored under is the key computed for the
\* error at lookup) and returns what h returned.
C21_StoredKeyIsLookupKey ==
    (Called /\ version = "v1e" /\ Len(last.err) = 1) =>
        \A k \in DOMAIN Reg.handlers :
            (Reg.handlers[k].kind = "typed" /\ Reg.handlers[k].E = last.err[1].typ)
                => /\ k = SprintfT(last.err)
                   /\ last.out = Invoke("typed", "v1e", Reg.handlers[k].h, last.ctx,
                                        ErrArg(last.err))

\* The errors.New sentinels registered on a v3 registry.
Sentinels(reg) == {k \in DOMAIN reg.handlers : reg.handlers[k].isStringError}

\* C22 as stated: v3, with one or more errors.New sentinels registered, an
\* errors.New error that is none of the registered values (another value
\* with the message of a sentinel, or any other errors.New error) matches no
\* entry and is given to the default handler, and a registered sentinel is
\* resolved by its own handler only.
C22_SentinelMatchedByValueIdentity ==
    (version = "v3" /\ Called /\ last.err \in ErrorsOfType(ErrorStringType)
                    /\ Sentinels(Reg) # {}) =>
        IF last.err \in Sentinels(Reg)
        THEN last.out = Invoke("typed", "v3", Reg.handlers[last.err].h, last.ctx,
                               ErrArg(last.err))
        ELSE /\ Unmatched("v3", Reg, last.err)
             /\ HasFallback("v3", Reg)
                    => last.out = ExpectedFallback("v3", Reg, last.ctx, last.err)

IdentityV3(k, handler) ==
    IF handler.isStringError THEN <<"value", k>> ELSE <<"type", k[1].typ>>

\* The identities of the registered handlers that can resolve err on reg;
\* none when err gets the fallback.
HandlingIdentities(ver, reg, err) ==
    IF ver = "v3"
    THEN {IdentityV3(k, reg.handlers[k]) : k \in MatchingEntries(reg, err)}
    ELSE IF SprintfT(err) \notin DOMAIN reg.handlers THEN {}
         ELSE LET entry == reg.handlers[SprintfT(err)]
              IN CASE entry.kind = "typed" -> {<<"type", entry.E>>}
                   [] entry.kind = "custom" -> {<<"name", SprintfT(err)>>}
                   [] entry.kind = "dispatcher" ->
                          IF ErrorText(err) \in DOMAIN reg.stringHandlers
                          THEN {<<"string", ErrorText(err)>>}
                          ELSE {}

\* err is an error the identity is registered for.
Belongs(ver, identity, err) ==
    CASE identity[1] = "value" -> ErrorsIs(err, identity[2])
      [] identity[1] = "name" -> SprintfT(err) = identity[2]
      [] identity[1] = "string" -> err \in ErrorsNew(identity[2])
      [] identity[1] = "type" ->
             \/ identity[2] = ErrorInterface
             \/ IF ver = "v3"
                THEN \E i \in 1..Len(err) : err[i].typ = identity[2]
                ELSE err # NilError /\ err[1].typ = identity[2]

\* Registering identity on before gave after: every error a handler of
\* another identity resolved, and every error that got the fallback and is
\* not one of the identity, is resolved as before.
OthersUntouched(ver, identity, before, after) ==
    \A err \in Errors :
        LET ids == HandlingIdentities(ver, before, err)
        IN ( \/ ids # {} /\ identity \notin ids
             \/ ids = {} /\ ~Belongs(ver, identity, err) )
               => Outcomes(ver, after, "ctx1", err) = Outcomes(ver, before, "ctx1", err)

\* The step from before to after is a registration of one identity that
\* leaves the errors of the other identities and of the fallback resolved as
\* before, or a change of the fallback that leaves every handler entry.
FramedChange(ver, before, after) ==
    \/ \E p \in TypedRegistrations(ver), h \in Handlers :
           /\ after = WithErrorHandler(ver, before, p[1], p[2], h)
           /\ OthersUntouched(ver,
                  IF ver = "v3" THEN IdentityV3(p[2], ErrorHandlerOf(p[1], p[2], h))
                  ELSE <<"type", p[1]>>,
                  before, after)
    \/ \E name \in CustomNames, h \in Handlers :
           /\ ver \in KeyedVersions
           /\ after = WithCustomHandler(before, name, h)
           /\ OthersUntouched(ver, <<"name", name>>, before, after)
    \/ \E s \in Messages, h \in Handlers :
           /\ ver \in KeyedVersions
           /\ after = WithStringHandler(ver, before, s, h)
           /\ OthersUntouched(ver, <<"string", s>>, before, after)
    \/ /\ after.handlers = before.handlers
       /\ after.stringHandlers = before.stringHandlers

\* C24 as stated: in every version a registration under one identity (a
\* type, a custom name, a string) changes only that identity's entry: the
\* errors resolved by handlers of other identities or by the fallback are
\* resolved as before; and SetDefaultResponse and RegisterDefaultHandler
\* change no handler entry.
C24_RegistrationChangesOnlyItsIdentity ==
    [][\A r \in RegIds :
           registries'[r] # registries[r]
               => FramedChange(version, registries[r], registries'[r])]_vars

\* The call is of a callback the user registered, not of the default
\* handler v3's NewErrorRegistry installs.
IsUserCall(call) == call.h # Builtin

\* C25: in every version a resolve call makes at most one call of a callback:
\* never two registered handlers, never a registered handler and the default
\* handler.  A call that returns the static pair (or the (500, nil) of v3's
\* built-in default handler) has invoked no user callback; every other call
\* that returns has invoked exactly one user callback, once, and returns its
\* result.
C25_ExactlyOneCallbackOrNone ==
    Called =>
        /\ Len(last.calls) <= 1
        /\ Len(SelectSeq(last.calls, IsUserCall)) <= 1
        /\ (last.out.kind = "static" \/ last.out.h = Builtin)
               => SelectSeq(last.calls, IsUserCall) = << >>
        /\ (last.out.kind \in {"typed", "string", "custom", "default"}
                /\ last.out.h # Builtin)
               => /\ SelectSeq(last.calls, IsUserCall) = <<last.out>>
                  /\ last.out.h \in RegisteredCallbacks(version, Reg)
        /\ \A i \in 1..Len(last.calls) :
               last.calls[i].kind = "default" => last.calls[i].h = Reg.DefaultHandler

\* C25 witness: v3, two entries with different handlers both accept the
\* resolved AError, and the call invoked one of the two handlers and nothing
\* else.
C25_Witness ==
    /\ version = "v3" /\ Called
    /\ DOMAIN Reg.handlers = {A1, A2}
    /\ Reg.handlers[A1].h # Reg.handlers[A2].h
    /\ last.err = A1
    /\ Cardinality(MatchingEntries(Reg, last.err)) = 2
    /\ Len(last.calls) = 1
    /\ last.calls[1].h = Reg.handlers[A2].h

\* Some value err wraps (below the outermost one) has a handler registered
\* for it: a typed handler for its type, or, for an errors.New value, a
\* string handler for its message behind the string dispatcher.
WrapsRegistered(reg, err) ==
    \E i \in 2..Len(err) :
        LET inner == SubSeq(err, i, Len(err))
        IN /\ SprintfT(inner) \in DOMAIN reg.handlers
           /\ \/ /\ reg.handlers[SprintfT(inner)].kind = "typed"
                 /\ reg.handlers[SprintfT(inner)].E = inner[1].typ
              \/ /\ reg.handlers[SprintfT(inner)].kind = "dispatcher"
                 /\ inner[1].typ = ErrorStringType
                 /\ ErrorText(inner) \in DOMAIN reg.stringHandlers

\* C26: v1 and v2 look up the %T name of the outermost value only: an error
\* that wraps a value of a registered type, or an errors.New error whose
\* message has a string handler, and whose own type name has no entry, is
\* not given to that handler and gets the fallback, called with the outer
\* error.
C26_NoChainWalk ==
    (Called /\ version \in V12 /\ WrapsRegistered(Reg, last.err)
            /\ SprintfT(last.err) \notin DOMAIN Reg.handlers) =>
        /\ last.out.kind \in {"static", "default"}
        /\ last.out = ExpectedFallback(version, Reg, last.ctx, last.err)
        /\ last.calls = Calls(ExpectedFallback(version, Reg, last.ctx, last.err))

\* C26 witness: v2a, a typed handler for AError and a string handler for m1
\* are registered; the *QError that wraps errors.New("m1") was resolved to
\* the static pair.
C26_Witness ==
    /\ version = "v2a" /\ Called /\ ncalls = 2
    /\ SprintfT(A1) \in DOMAIN Reg.handlers
    /\ Reg.handlers[SprintfT(A1)].kind = "typed"
    /\ "m1" \in DOMAIN Reg.stringHandlers
    /\ DispatcherInPlace(Reg)
    /\ last.err = QS1
    /\ WrapsRegistered(Reg, last.err)
    /\ last.out = StaticPair(Reg)

\* C26 witness for a wrapped value of a registered type, in v1.
C26_WitnessWrappedType ==
    /\ version = "v1" /\ Called
    /\ SprintfT(A1) \in DOMAIN Reg.handlers
    /\ Reg.handlers[SprintfT(A1)].kind = "typed"
    /\ Reg.handlers[SprintfT(A1)].E = "AError"
    /\ last.err = WrapN(A1, 2)
    /\ last.out = StaticPair(Reg)

\* A custom type handler is what the registry holds under
\* "*errors.errorString".
CustomErrorStringHandler(reg) ==
    /\ ErrorStringKey \in DOMAIN reg.handlers
    /\ reg.handlers[ErrorStringKey].kind = "custom"

\* A typed closure is what the registry holds under "*errors.errorString"
\* (v2a: RegisterErrorHandlerOn with an instance made by errors.New).
TypedErrorStringHandler(reg) ==
    /\ ErrorStringKey \in DOMAIN reg.handlers
    /\ reg.handlers[ErrorStringKey].kind = "typed"

\* C27 as amended: v1 and v2 (and src/unnamed/part_001), while the entry
\* under "*errors.errorString" is a custom type handler every errors.New
\* error is given to the custom handler registered last under that name and
\* no string handler is invoked, whether string handlers were registered
\* before or after it; a registration of a string handler leaves that entry
\* as it is, and the entry stays a custom handler unless, in v2a, a typed
\* handler is registered with an instance made by errors.New.
C27_CustomErrorStringHandlerWhileInPlace ==
    /\ [](( Called /\ version \in KeyedVersions /\ CustomErrorStringHandler(Reg)
                   /\ last.err \in ErrorsOfType(ErrorStringType) ) =>
              /\ last.out = Invoke("custom", version, Reg.handlers[ErrorStringKey].h,
                                   last.ctx, ErrArg(last.err))
              /\ \A i \in 1..Len(last.calls) : last.calls[i].kind # "string")
    /\ [][\A r \in RegIds :
              (version \in KeyedVersions /\ CustomErrorStringHandler(registries[r])) =>
                  /\ registries'[r].stringHandlers # registries[r].stringHandlers
                         => registries'[r].handlers = registries[r].handlers
                  /\ \/ CustomErrorStringHandler(registries'[r])
                     \/ version = "v2a" /\ TypedErrorStringHandler(registries'[r])]_vars

\* C27 witness: src/unnamed/part_001, a custom handler under
\* "*errors.errorString" and a string handler for m1 are both registered, and
\* errors.New("m1") was given to the custom handler.
C27_Witness ==
    /\ version = "v1e" /\ Called /\ ncalls = 2
    /\ CustomErrorStringHandler(Reg)
    /\ "m1" \in DOMAIN Reg.stringHandlers
    /\ last.err = S1
    /\ last.out.kind = "custom"
    /\ last.out.h = Reg.handlers[ErrorStringKey].h
    /\ last.out.h # Reg.stringHandlers["m1"]

\* C27 as stated: v1 and v2, once a custom type handler is registered under
\* "*errors.errorString" it stays: every later errors.New error is given to
\* a custom handler.
C27_CustomErrorStringHandlerForever ==
    [][\A r \in RegIds :
           (version \in KeyedVersions /\ CustomErrorStringHandler(registries[r]))
               => CustomErrorStringHandler(registries'[r])]_vars

\* The errors.New errors whose message has no string handler on reg.
ErrorsNewUnhandled(reg) ==
    {err \in ErrorsOfType(ErrorStringType) : ErrorText(err) \notin DOMAIN reg.stringHandlers}

\* C28 as amended: v1 and v2, on a registry whose "*errors.errorString" entry
\* is still the string dispatcher, an errors.New error whose message has no
\* string handler gets the fallback as the registry holds it at the resolve
\* call: the pair of a SetDefaultResponse, or the result of the handler of a
\* RegisterDefaultHandler, made after NewErrorRegistry and after a string
\* registration; the default handler is given the ctx and the error itself.
C28_DispatcherFallbackAtResolveTime ==
    /\ (Called /\ version \in V12 /\ DispatcherInPlace(Reg)
               /\ last.err \in ErrorsNewUnhandled(Reg)) =>
           last.out = ExpectedFallback(version, Reg, last.ctx, last.err)
    /\ (Idle /\ version \in V12) =>
           \A r \in RegIds, s \in Messages, p \in DefaultPairs :
               LET reg == WithDefaultResponse(
                              WithStringHandler(version, registries[r], s, "H1"),
                              p[1], p[2])
               IN DispatcherInPlace(reg) =>
                      \A err \in ErrorsNewUnhandled(reg) :
                          /\ reg.DefaultHandler = NilFunc =>
                                 /\ KeyedResolve(version, reg, "ctx1", err).kind = "static"
                                 /\ Response(KeyedResolve(version, reg, "ctx1", err))
                                        = <<p[1], p[2]>>
                          /\ version = "v2b" =>
                                 \A d \in DefaultHandlers :
                                     KeyedResolve(version, WithDefaultHandler(reg, d),
                                                  "ctx1", err)
                                         = Invoke("default", "v2b", d, "ctx1", ErrArg(err))

\* C28 witness: v1, a string handler for m2 was registered and the static
\* pair set to (503, ...) after NewErrorRegistry; errors.New("m1") got (503,
\* ...), not the (500, nil) of the new registry.
C28_Witness ==
    /\ version = "v1" /\ Called /\ ncalls = 2
    /\ DispatcherInPlace(Reg)
    /\ DOMAIN Reg.stringHandlers = {"m2"}
    /\ Reg.DefaultCode = 503
    /\ last.err = S1
    /\ last.out.kind = "static"
    /\ Response(last.out) = <<503, SomeResponse>>

\* C28 witness for the default handler of v2b, given the error itself.
C28_WitnessDefaultHandler ==
    /\ version = "v2b" /\ Called /\ ncalls = 2
    /\ DispatcherInPlace(Reg)
    /\ DOMAIN Reg.stringHandlers = {"m2"}
    /\ Reg.DefaultHandler = "D1"
    /\ last.err = S1b
    /\ last.out = Invoke("default", "v2b", "D1", last.ctx, ErrArg(S1b))

\* C28 as stated: v1 and v2, an errors.New error whose message has no string
\* handler gets the fallback the registry holds at the resolve call.
C28_UnhandledStringGetsFallback ==
    (Called /\ version \in V12 /\ last.err \in ErrorsNewUnhandled(Reg)) =>
        last.out = ExpectedFallback(version, Reg, last.ctx, last.err)

\* C29 as stated: v1 and v2, the closure RegisterErrorHandlerOn[E] stores is
\* only called with an error its type assertion err.(E) accepts, whatever
\* was registered, whatever E is (the interface type error too) and
\* whatever error is resolved (nil, or of a type that prints the %T name of
\* E): the assertion never fails.
C29_TypeAssertionNeverFails ==
    (Called /\ version \in V12 /\ SprintfT(last.err) \in DOMAIN Reg.handlers) =>
        LET entry == Reg.handlers[SprintfT(last.err)]
        IN entry.kind = "typed" =>
               /\ TypeAssertOk(last.err, entry.E)
               /\ last.out.kind # "panic"
               /\ last.out = Invoke("typed", version, entry.h, last.ctx, ErrArg(last.err))

\* C30 as stated: v3, RegisterErrorHandlerOn never panics, whatever instance
\* it is given (one of a type that is not comparable, or nil), and when it
\* has returned the registry holds exactly one entry for the instance, with
\* the handler given.
C30_RegistrationNeverPanics ==
    version = "v3" =>
        /\ "panicked" \notin DOMAIN last
        /\ Idle =>
               \A r \in RegIds, h \in Handlers,
                  p \in TypedRegistrations("v3") \cup {<<ErrorInterface, NilError>>} :
                   LET after == WithErrorHandler("v3", registries[r], p[1], p[2], h)
                   IN ~MapAssignPanics(p[2]) =>
                          /\ p[2] \in DOMAIN after.handlers
                          /\ Cardinality({k \in DOMAIN after.handlers : k = p[2]}) = 1
                          /\ after.handlers[p[2]] = ErrorHandlerOf(p[1], p[2], h)
                          /\ DOMAIN after.handlers = DOMAIN registries[r].handlers \cup {p[2]}

====
